---- MODULE Spec2Model ----
(***************************************************************************)
(* Model of src/core/settings.py: the Settings object built at import,     *)
(* the credential resolver get_google_credentials, the lazily memoized     *)
(* BigQuery client (_bigquery_client) and ensure_dataset_exists.           *)
(*                                                                         *)
(* Strings that the code only compares or concatenates are TLA+ strings;   *)
(* the environment name, which the code lower-cases, is a sequence of      *)
(* one-character strings so that str.lower() is computed per character.    *)
(***************************************************************************)
EXTENDS Naturals, Sequences, FiniteSets, TLC

VARIABLES
    environ,            \* overrides from .env / os.environ, read by BaseSettings
    keyFile,            \* contents of PROJECT_DIR/key.json on the file system
    phase,              \* "start", "ready" (settings built), "import_failed"
    settings,           \* the module-level Settings object (line 53)
    initFsOps,          \* file-system operations issued by Settings.__init__
    bigquery_client,    \* the global _bigquery_client: None or a client id
    clients,            \* every bigquery.Client constructed so far, by id
    pc,                 \* per thread: position in the running call
    op,                 \* per thread: the top-level call it is running
    credentials,        \* per thread: local `credentials` of get_bigquery_client
    client,             \* per thread: local `client` (an id) or None
    exc,                \* per thread: the exception in flight / delivered
    raisedBy,           \* per thread: [step, exc] of every raise in this call
    apiCalls,           \* per thread: remote dataset calls issued in this call
    warned,             \* per thread: warnings printed in this call
    result,             \* per thread: value returned to the caller
    slotAtCall,         \* per thread: _bigquery_client when the call began
    credCalls,          \* invocations of get_google_credentials so far
    failedAttempts,     \* get_bigquery_client invocations that raised
    ncalls              \* top-level calls started so far

vars == <<environ, keyFile, phase, settings, initFsOps,
          bigquery_client, clients, pc, op, credentials, client, exc,
          raisedBy, apiCalls, warned, result, slotAtCall, credCalls,
          failedAttempts, ncalls>>

settingsVars == <<environ, phase, settings, initFsOps>>
threadVars == <<pc, op, credentials, client, exc, raisedBy, apiCalls, warned,
                result, slotAtCall>>
counterVars == <<credCalls, failedAttempts, ncalls>>

----------------------------------------------------------------------------
\* Bounds of the model.

\* Top-level calls (get_bigquery_client_instance / ensure_dataset_exists)
\* started in one process.
MaxCalls == 2

Threads == {"t1", "t2"}

----------------------------------------------------------------------------
\* Values.

\* Python's None.
None == "None"

\* None where the other values are client ids (1, 2, ...): the initial
\* value of _bigquery_client (line 92), an unbound `client` local, the
\* result of ensure_dataset_exists.
NoClient == 0

\* An unset environment variable / .env entry (string-valued field).
Unset == "<unset>"

\* An unset ENVIRONMENT entry (the field is a character sequence).
UnsetName == <<"<unset>">>

\* A key.json without a "project_id" key.
NoProjectId == "<no project_id>"

Str_development == <<"d","e","v","e","l","o","p","m","e","n","t">>
Str_local == <<"l","o","c","a","l">>

\* Class-level defaults of Settings.
Default_ENVIRONMENT == Str_development
Default_GOOGLE_CLOUD_PROJECT == "celestial-gecko-449316-d2"
Default_PROJECT_ID == "celestial-gecko-449316-d2"
Default_BIGQUERY_DATASET == "template_dataset"
Default_BIGQUERY_LOCATION == "US"

\* Environment names supplied through ENVIRONMENT.
EnvNames == { Str_local,
              <<"L","O","C","A","L">>,
              <<"L","o","c","a","L">>,
              <<"l","o","c","a","l","e">> }

\* Project ids supplied through GOOGLE_CLOUD_PROJECT / PROJECT_ID.
ProjectIds == {"proj-a"}

\* Possible states of PROJECT_DIR/key.json.  "json" is a file that parses as
\* a JSON object; sa says whether it is also a loadable service-account key.
KeyFiles ==
    { [kind |-> "absent",    project_id |-> NoProjectId, sa |-> FALSE],
      [kind |-> "malformed", project_id |-> NoProjectId, sa |-> FALSE],
      [kind |-> "json",      project_id |-> NoProjectId, sa |-> FALSE],
      [kind |-> "json",      project_id |-> "proj-k",    sa |-> TRUE] }

Environs == [ENVIRONMENT : EnvNames \cup {UnsetName},
             GOOGLE_CLOUD_PROJECT : ProjectIds \cup {Unset},
             PROJECT_ID : ProjectIds \cup {Unset}]

----------------------------------------------------------------------------
\* str.lower(), per character.

UpperChars == <<"A","B","C","D","E","F","G","H","I","J","K","L","M",
                "N","O","P","Q","R","S","T","U","V","W","X","Y","Z">>
LowerChars == <<"a","b","c","d","e","f","g","h","i","j","k","l","m",
                "n","o","p","q","r","s","t","u","v","w","x","y","z">>

LowerChar(c) ==
    IF \E i \in DOMAIN UpperChars : UpperChars[i] = c
    THEN LowerChars[CHOOSE i \in DOMAIN UpperChars : UpperChars[i] = c]
    ELSE c

Lower(s) == [i \in DOMAIN s |-> LowerChar(s[i])]

\* Variant: the comparison without .lower().
IsLocal_CaseSensitive(name) == name = Str_local

\* Variant: startswith("local") instead of equality.
IsLocal_Prefix(name) ==
    /\ Len(name) >= 5
    /\ SubSeq(Lower(name), 1, 5) = Str_local

\* The test `ENVIRONMENT.lower() == "local"` of lines 37 and 59.
IsLocal(name) == Lower(name) = Str_local

\* Variant: the file is opened without the existence check.
KeyExists_Unchecked(f) == TRUE

\* Path.exists() on PROJECT_DIR / "key.json".
KeyExists(f) == f.kind # "absent"

\* json.load: a dict, or a raise.
JsonLoads(f) == f.kind = "json"

\* key_data.get("project_id", default)
KeyProjectId(f, default) ==
    IF f.project_id = NoProjectId THEN default ELSE f.project_id

\* BaseSettings.__init__: defaults overridden by the environment.
FieldValue(name, unset, default) ==
    IF environ[name] = unset THEN default ELSE environ[name]

BaseSettings ==
    [ENVIRONMENT          |-> FieldValue("ENVIRONMENT", UnsetName,
                                         Default_ENVIRONMENT),
     GOOGLE_CLOUD_PROJECT |-> FieldValue("GOOGLE_CLOUD_PROJECT", Unset,
                                         Default_GOOGLE_CLOUD_PROJECT),
     PROJECT_ID           |-> FieldValue("PROJECT_ID", Unset,
                                         Default_PROJECT_ID),
     BIGQUERY_DATASET     |-> Default_BIGQUERY_DATASET,
     BIGQUERY_LOCATION    |-> Default_BIGQUERY_LOCATION]

\* settings before line 53 has run.
NoSettings == [ENVIRONMENT |-> <<>>, GOOGLE_CLOUD_PROJECT |-> None,
               PROJECT_ID |-> None, BIGQUERY_DATASET |-> None,
               BIGQUERY_LOCATION |-> None]

----------------------------------------------------------------------------
Init ==
    /\ environ \in Environs
    /\ keyFile \in KeyFiles
    /\ phase = "start"
    /\ settings = NoSettings
    /\ initFsOps = <<>>
    /\ bigquery_client = NoClient
    /\ clients = <<>>
    /\ pc = [t \in Threads |-> "idle"]
    /\ op = [t \in Threads |-> None]
    /\ credentials = [t \in Threads |-> None]
    /\ client = [t \in Threads |-> NoClient]
    /\ exc = [t \in Threads |-> None]
    /\ raisedBy = [t \in Threads |-> <<>>]
    /\ apiCalls = [t \in Threads |-> <<>>]
    /\ warned = [t \in Threads |-> 0]
    /\ result = [t \in Threads |-> NoClient]
    /\ slotAtCall = [t \in Threads |-> NoClient]
    /\ credCalls = 0
    /\ failedAttempts = 0
    /\ ncalls = 0

----------------------------------------------------------------------------
\* Settings.__init__ (lines 34-45), run by `settings = Settings()` at import.

SettingsInit ==
    /\ phase = "start"
    /\ LET s == BaseSettings IN
       IF IsLocal(s.ENVIRONMENT)
       THEN IF KeyExists(keyFile)
            THEN IF JsonLoads(keyFile)
                 THEN /\ settings' =
                            [s EXCEPT
                               !.GOOGLE_CLOUD_PROJECT =
                                   KeyProjectId(keyFile, s.GOOGLE_CLOUD_PROJECT),
                               !.PROJECT_ID =
                                   KeyProjectId(keyFile, s.PROJECT_ID)]
                      /\ phase' = "ready"
                      /\ initFsOps' = <<"exists", "open">>
                 ELSE \* json.load raises; the import of the module fails
                      /\ settings' = settings
                      /\ phase' = "import_failed"
                      /\ initFsOps' = <<"exists", "open">>
            ELSE /\ settings' = s
                 /\ phase' = "ready"
                 /\ initFsOps' = <<"exists">>
       ELSE /\ settings' = s
            /\ phase' = "ready"
            /\ initFsOps' = <<>>
    /\ UNCHANGED <<environ, keyFile, bigquery_client, clients>>
    /\ UNCHANGED threadVars
    /\ UNCHANGED counterVars

\* The file system is outside the program: key.json may be created, replaced
\* or removed between the Path.exists() checks of lines 39 and 61.
KeyFileChange ==
    /\ phase = "ready"
    /\ \E f \in KeyFiles \ {keyFile} : keyFile' = f
    /\ UNCHANGED <<bigquery_client, clients>>
    /\ UNCHANGED settingsVars
    /\ UNCHANGED threadVars
    /\ UNCHANGED counterVars

----------------------------------------------------------------------------
\* Exceptions.

\* Variant: ensure_dataset_exists without its outer handler.
Handles_Nothing(operation) == FALSE

\* Variant: get_bigquery_client_instance swallowing errors as well.
Handles_Everything(operation) == TRUE

\* Line 120: `except Exception` around the whole body of
\* ensure_dataset_exists.  get_bigquery_client_instance and
\* get_bigquery_client have no handler.
Handles(operation) == operation = "ensure"

\* Thread t raises e at `step` with no handler closer than the top-level
\* call.  In ensure_dataset_exists the handler of lines 120-121 prints a
\* warning and the call returns None; otherwise e reaches the caller.
Raise(t, step, e) ==
    /\ raisedBy' = [raisedBy EXCEPT ![t] = Append(@, [step |-> step, exc |-> e])]
    /\ IF Handles(op[t])
       THEN /\ warned' = [warned EXCEPT ![t] = @ + 1]
            /\ exc' = [exc EXCEPT ![t] = None]
            /\ pc' = [pc EXCEPT ![t] = "returned"]
       ELSE /\ warned' = warned
            /\ exc' = [exc EXCEPT ![t] = e]
            /\ pc' = [pc EXCEPT ![t] = "raised"]
    /\ result' = [result EXCEPT ![t] = NoClient]

----------------------------------------------------------------------------
\* get_bigquery_client_instance (lines 95-100).

\* Variant: no memoization test, a client is built on every call.
NeedsConstruction_Always(slot) == TRUE

\* Line 98: `if _bigquery_client is None`.
NeedsConstruction(slot) == slot = NoClient

\* Entry of a top-level call, up to and including the test of line 98.
\* ensure_dataset_exists enters get_bigquery_client_instance at line 107.
Call(t, operation) ==
    /\ phase = "ready"
    /\ pc[t] = "idle"
    /\ ncalls < MaxCalls
    /\ ncalls' = ncalls + 1
    /\ op' = [op EXCEPT ![t] = operation]
    /\ slotAtCall' = [slotAtCall EXCEPT ![t] = bigquery_client]
    /\ pc' = [pc EXCEPT ![t] =
                IF NeedsConstruction(bigquery_client) THEN "credentials"
                                                      ELSE "return"]
    /\ UNCHANGED <<keyFile, bigquery_client, clients, credentials,
                   client, exc, raisedBy, apiCalls, warned, result, credCalls,
                   failedAttempts>>
    /\ UNCHANGED settingsVars

CallInstance(t) == Call(t, "instance")

CallEnsure(t) == Call(t, "ensure")

\* get_google_credentials (lines 57-68), called at line 74.
GetGoogleCredentials(t) ==
    /\ pc[t] = "credentials"
    /\ credCalls' = credCalls + 1
    /\ IF IsLocal(settings.ENVIRONMENT)
       THEN IF KeyExists(keyFile)
            THEN IF keyFile.sa
                 THEN /\ credentials' = [credentials EXCEPT ![t] = "service_account"]
                      /\ pc' = [pc EXCEPT ![t] = "build"]
                      /\ UNCHANGED <<exc, raisedBy, warned, result, failedAttempts>>
                 ELSE \* from_service_account_file rejects the file
                      /\ Raise(t, "credentials", "ValueError")
                      /\ failedAttempts' = failedAttempts + 1
                      /\ UNCHANGED credentials
            ELSE /\ Raise(t, "credentials", "FileNotFoundError")
                 /\ failedAttempts' = failedAttempts + 1
                 /\ UNCHANGED credentials
       ELSE /\ credentials' = [credentials EXCEPT ![t] = None]
            /\ pc' = [pc EXCEPT ![t] = "build"]
            /\ UNCHANGED <<exc, raisedBy, warned, result, failedAttempts>>
    /\ UNCHANGED <<keyFile, bigquery_client, clients, op, client,
                   apiCalls, slotAtCall, ncalls>>
    /\ UNCHANGED settingsVars

\* The client object built by lines 76-86: with explicit credentials when
\* `credentials` is truthy, otherwise with Application Default Credentials.
NewClient(creds) ==
    [project     |-> settings.GOOGLE_CLOUD_PROJECT,
     location    |-> settings.BIGQUERY_LOCATION,
     credentials |-> IF creds # None THEN creds ELSE "ADC"]

\* get_bigquery_client, lines 76-88: bigquery.Client(...) returns or raises.
BuildClient(t) ==
    /\ pc[t] = "build"
    /\ \E ok \in BOOLEAN :
         IF ok
         THEN /\ clients' = Append(clients, NewClient(credentials[t]))
              /\ client' = [client EXCEPT ![t] = Len(clients) + 1]
              /\ pc' = [pc EXCEPT ![t] = "store"]
              /\ UNCHANGED <<exc, raisedBy, warned, result, failedAttempts>>
         ELSE /\ Raise(t, "client", "ClientError")
              /\ failedAttempts' = failedAttempts + 1
              /\ UNCHANGED <<clients, client>>
    /\ UNCHANGED <<keyFile, bigquery_client, op, credentials,
                   apiCalls, slotAtCall, credCalls, ncalls>>
    /\ UNCHANGED settingsVars

\* Line 99: `_bigquery_client = get_bigquery_client()`.
StoreClient(t) ==
    /\ pc[t] = "store"
    /\ bigquery_client' = client[t]
    /\ pc' = [pc EXCEPT ![t] = "return"]
    /\ UNCHANGED <<keyFile, clients, op, credentials, client, exc,
                   raisedBy, apiCalls, warned, result, slotAtCall>>
    /\ UNCHANGED settingsVars
    /\ UNCHANGED counterVars

\* Line 100: `return _bigquery_client` reads the global again.  The value
\* goes to the caller, or to `client` of ensure_dataset_exists (line 107).
ReturnClient(t) ==
    /\ pc[t] = "return"
    /\ IF op[t] = "instance"
       THEN /\ result' = [result EXCEPT ![t] = bigquery_client]
            /\ pc' = [pc EXCEPT ![t] = "returned"]
            /\ UNCHANGED client
       ELSE /\ client' = [client EXCEPT ![t] = bigquery_client]
            /\ pc' = [pc EXCEPT ![t] = "get_dataset"]
            /\ UNCHANGED result
    /\ UNCHANGED <<keyFile, bigquery_client, clients, op,
                   credentials, exc, raisedBy, apiCalls, warned, slotAtCall>>
    /\ UNCHANGED settingsVars
    /\ UNCHANGED counterVars

----------------------------------------------------------------------------
\* ensure_dataset_exists (lines 104-122).

\* Line 118: create_dataset(dataset, timeout=30).
CreateTimeout == 30

\* Variant: the dataset id built from the legacy PROJECT_ID field.
DatasetId_Legacy == settings.PROJECT_ID \o "." \o settings.BIGQUERY_DATASET

\* Line 108: f"{settings.GOOGLE_CLOUD_PROJECT}.{settings.BIGQUERY_DATASET}".
DatasetId == settings.GOOGLE_CLOUD_PROJECT \o "." \o settings.BIGQUERY_DATASET

\* Lines 108-113: client.get_dataset(dataset_id); any exception is caught
\* by line 112 and leads to the creation branch.
GetDataset(t) ==
    /\ pc[t] = "get_dataset"
    /\ apiCalls' = [apiCalls EXCEPT ![t] =
                      Append(@, [call |-> "get_dataset", client |-> client[t],
                                 dataset_id |-> DatasetId,
                                 location |-> None, timeout |-> 0])]
    /\ \E e \in {None, "NotFound", "Forbidden"} :
         IF e = None
         THEN /\ pc' = [pc EXCEPT ![t] = "returned"]
              /\ result' = [result EXCEPT ![t] = NoClient]
              /\ UNCHANGED raisedBy
         ELSE /\ raisedBy' = [raisedBy EXCEPT ![t] =
                                Append(@, [step |-> "get_dataset", exc |-> e])]
              /\ pc' = [pc EXCEPT ![t] = "create_dataset"]
              /\ UNCHANGED result
    /\ UNCHANGED <<keyFile, bigquery_client, clients, op,
                   credentials, client, exc, warned, slotAtCall>>
    /\ UNCHANGED settingsVars
    /\ UNCHANGED counterVars

\* Lines 114-119: build the Dataset value, client.create_dataset(...).
CreateDataset(t) ==
    /\ pc[t] = "create_dataset"
    /\ apiCalls' = [apiCalls EXCEPT ![t] =
                      Append(@, [call |-> "create_dataset", client |-> client[t],
                                 dataset_id |-> DatasetId,
                                 location |-> settings.BIGQUERY_LOCATION,
                                 timeout |-> CreateTimeout])]
    /\ \E ok \in BOOLEAN :
         IF ok
         THEN /\ pc' = [pc EXCEPT ![t] = "returned"]
              /\ result' = [result EXCEPT ![t] = NoClient]
              /\ UNCHANGED <<exc, raisedBy, warned>>
         ELSE Raise(t, "create_dataset", "CreateError")
    /\ UNCHANGED <<keyFile, bigquery_client, clients, op,
                   credentials, client, slotAtCall>>
    /\ UNCHANGED settingsVars
    /\ UNCHANGED counterVars

\* The caller has the outcome of the call; the frame is gone.
CallerResume(t) ==
    /\ pc[t] \in {"returned", "raised"}
    /\ pc' = [pc EXCEPT ![t] = "idle"]
    /\ op' = [op EXCEPT ![t] = None]
    /\ credentials' = [credentials EXCEPT ![t] = None]
    /\ client' = [client EXCEPT ![t] = NoClient]
    /\ exc' = [exc EXCEPT ![t] = None]
    /\ raisedBy' = [raisedBy EXCEPT ![t] = <<>>]
    /\ apiCalls' = [apiCalls EXCEPT ![t] = <<>>]
    /\ warned' = [warned EXCEPT ![t] = 0]
    /\ result' = [result EXCEPT ![t] = NoClient]
    /\ slotAtCall' = [slotAtCall EXCEPT ![t] = NoClient]
    /\ UNCHANGED <<keyFile, bigquery_client, clients>>
    /\ UNCHANGED settingsVars
    /\ UNCHANGED counterVars

----------------------------------------------------------------------------
\* Threads of one process interleave freely between statements.
Next ==
    \/ SettingsInit
    \/ KeyFileChange
    \/ \E t \in Threads : CallInstance(t)
    \/ \E t \in Threads : CallEnsure(t)
    \/ \E t \in Threads : GetGoogleCredentials(t)
    \/ \E t \in Threads : BuildClient(t)
    \/ \E t \in Threads : StoreClient(t)
    \/ \E t \in Threads : ReturnClient(t)
    \/ \E t \in Threads : GetDataset(t)
    \/ \E t \in Threads : CreateDataset(t)
    \/ \E t \in Threads : CallerResume(t)

Spec == Init /\ [][Next]_vars

\* Sequential runs: a thread runs only while every other thread is idle, so
\* a call starts only when no other call is in progress.
OthersIdle(t) == \A u \in Threads \ {t} : pc[u] = "idle"

SeqNext ==
    \/ SettingsInit
    \/ KeyFileChange
    \/ \E t \in Threads : OthersIdle(t) /\ CallInstance(t)
    \/ \E t \in Threads : OthersIdle(t) /\ CallEnsure(t)
    \/ \E t \in Threads : OthersIdle(t) /\ GetGoogleCredentials(t)
    \/ \E t \in Threads : OthersIdle(t) /\ BuildClient(t)
    \/ \E t \in Threads : OthersIdle(t) /\ StoreClient(t)
    \/ \E t \in Threads : OthersIdle(t) /\ ReturnClient(t)
    \/ \E t \in Threads : OthersIdle(t) /\ GetDataset(t)
    \/ \E t \in Threads : OthersIdle(t) /\ CreateDataset(t)
    \/ \E t \in Threads : OthersIdle(t) /\ CallerResume(t)

SeqSpec == Init /\ [][SeqNext]_vars

----------------------------------------------------------------------------
\* Vocabulary of the properties.

\* name equals "local" up to the case of each letter (stated without Lower).
LocalCI(name) ==
    /\ Len(name) = 5
    /\ name[1] \in {"l", "L"}
    /\ name[2] \in {"o", "O"}
    /\ name[3] \in {"c", "C"}
    /\ name[4] \in {"a", "A"}
    /\ name[5] \in {"l", "L"}

\* The steps of the running call of t that raised.
RaisedSteps(t) == { raisedBy[t][i].step : i \in DOMAIN raisedBy[t] }

\* Positions of the creation / fetch calls in the running call of t.
Creates(t) == { i \in DOMAIN apiCalls[t] : apiCalls[t][i].call = "create_dataset" }
Fetches(t) == { i \in DOMAIN apiCalls[t] : apiCalls[t][i].call = "get_dataset" }

\* t's call of `operation` has come back to its caller.
Finished(t, operation) == op[t] = operation /\ pc[t] \in {"returned", "raised"}

\* This step is Settings.__init__.
Constructing == phase = "start" /\ phase' # "start"

\* This step is thread t running get_google_credentials.
Resolving(t) == pc[t] = "credentials" /\ pc'[t] # "credentials"

----------------------------------------------------------------------------
\* C1: under every interleaving of concurrent callers at most one client
\* object is constructed per process, and every call of
\* get_bigquery_client_instance returns that same object.
C1_AtMostOneClientConstructed ==
    /\ Len(clients) <= 1
    /\ \A t, u \in Threads :
         (Finished(t, "instance") /\ pc[t] = "returned" /\
          Finished(u, "instance") /\ pc[u] = "returned")
            => result[t] = result[u]

\* C2: in a sequential run the slot goes from None to a client once and
\* never back or to another client: every get_bigquery_client_instance
\* that returns hands out the stored object, at most one client is ever
\* constructed, and once the slot is filled no step changes it or
\* constructs another client.
C2_SlotFilledOnce ==
    /\ [](\A t \in Threads :
            (Finished(t, "instance") /\ pc[t] = "returned")
               => (result[t] # NoClient /\ result[t] = bigquery_client))
    /\ [](Len(clients) <= 1)
    /\ [][bigquery_client # NoClient
            => (bigquery_client' = bigquery_client /\ clients' = clients)]_vars

\* C2 witness: a call that began with the slot already filled has returned
\* the stored client.
C2_Witness ==
    \E t \in Threads :
        /\ Finished(t, "instance")
        /\ pc[t] = "returned"
        /\ slotAtCall[t] # NoClient
        /\ result[t] = slotAtCall[t]

\* C3: ensure_dataset_exists never raises, whatever fails inside it, and a
\* call in which credential resolution, client construction or dataset
\* creation failed has printed a warning.
C3_EnsureNeverRaises ==
    \A t \in Threads :
        op[t] = "ensure" =>
            /\ pc[t] # "raised"
            /\ exc[t] = None
            /\ (RaisedSteps(t) \cap {"credentials", "client", "create_dataset"}) # {}
                  => (pc[t] = "returned" /\ warned[t] >= 1)

\* C3 witness: an ensure_dataset_exists whose fetch and creation both
\* failed has returned after one warning.
C3_Witness ==
    \E t \in Threads :
        /\ Finished(t, "ensure")
        /\ {"get_dataset", "create_dataset"} \subseteq RaisedSteps(t)
        /\ warned[t] = 1

\* C4: in one ensure_dataset_exists, a creation call is always preceded by
\* the fetch; when the call is over, a fetch that succeeded means no
\* creation call, and a fetch that failed means exactly one creation call,
\* for "<GOOGLE_CLOUD_PROJECT>.<BIGQUERY_DATASET>" at BIGQUERY_LOCATION; and
\* without a client nothing is fetched or created.
C4_CreateOnlyAfterFailedFetch ==
    \A t \in Threads :
        /\ \A i \in Creates(t) : \E j \in Fetches(t) : j < i
        /\ Cardinality(Fetches(t)) <= 1
        /\ Finished(t, "ensure") =>
             /\ client[t] = NoClient => apiCalls[t] = <<>>
             /\ client[t] # NoClient =>
                  /\ Cardinality(Fetches(t)) = 1
                  /\ "get_dataset" \notin RaisedSteps(t) => Creates(t) = {}
                  /\ "get_dataset" \in RaisedSteps(t) =>
                       /\ Cardinality(Creates(t)) = 1
                       /\ \A i \in Creates(t) :
                            /\ apiCalls[t][i].dataset_id =
                                 settings.GOOGLE_CLOUD_PROJECT \o "." \o
                                 settings.BIGQUERY_DATASET
                            /\ apiCalls[t][i].location = settings.BIGQUERY_LOCATION
                            /\ apiCalls[t][i].client = client[t]

\* C4 witness: a finished ensure_dataset_exists whose fetch failed, in a
\* configuration where the two project-id fields differ.
C4_Witness ==
    \E t \in Threads :
        /\ Finished(t, "ensure")
        /\ "get_dataset" \in RaisedSteps(t)
        /\ Cardinality(Creates(t)) = 1
        /\ settings.GOOGLE_CLOUD_PROJECT # settings.PROJECT_ID

\* C5: when the environment name is not "local" up to case, building the
\* settings succeeds without any file-system operation on key.json, and
\* get_google_credentials returns None and never raises, whether or not
\* key.json exists.
C5_NonLocalNeverTouchesKeyFile ==
    (phase # "start" /\ ~LocalCI(BaseSettings.ENVIRONMENT)) =>
        /\ phase = "ready"
        /\ initFsOps = <<>>
        /\ \A t \in Threads :
             /\ credentials[t] = None
             /\ "credentials" \notin RaisedSteps(t)

\* C5 witness: outside "local", with key.json present, a thread is past
\* get_google_credentials.
C5_Witness ==
    /\ phase = "ready"
    /\ ~LocalCI(settings.ENVIRONMENT)
    /\ keyFile.kind = "json"
    /\ \E t \in Threads : pc[t] = "build"

\* C6: once the settings are built, GOOGLE_CLOUD_PROJECT and PROJECT_ID are
\* equal, whatever the environment supplies.
C6_ProjectIdsEqual ==
    phase = "ready" => settings.GOOGLE_CLOUD_PROJECT = settings.PROJECT_ID

\* C7: built in a "local" (up to case) environment with a key.json that
\* parses and has project_id X, the settings have GOOGLE_CLOUD_PROJECT = X
\* and PROJECT_ID = X, whatever the defaults and the environment say.
C7_KeyFileSetsBothProjectIds ==
    [][(/\ Constructing
        /\ LocalCI(BaseSettings.ENVIRONMENT)
        /\ keyFile.kind = "json"
        /\ keyFile.project_id # NoProjectId)
         => (/\ phase' = "ready"
             /\ settings'.GOOGLE_CLOUD_PROJECT = keyFile.project_id
             /\ settings'.PROJECT_ID = keyFile.project_id)]_vars

\* C7 witness: settings built from key.json although the environment sets
\* GOOGLE_CLOUD_PROJECT, under an upper-case spelling of "local".
C7_Witness ==
    /\ phase = "ready"
    /\ environ.ENVIRONMENT = <<"L","O","C","A","L">>
    /\ environ.GOOGLE_CLOUD_PROJECT = "proj-a"
    /\ environ.PROJECT_ID = Unset
    /\ settings.GOOGLE_CLOUD_PROJECT = "proj-k"
    /\ settings.PROJECT_ID = "proj-k"

\* C8: built in a "local" environment without key.json, the settings are
\* built and keep the default or environment-supplied project ids; and
\* get_google_credentials, run in a "local" environment without key.json,
\* raises FileNotFoundError and yields no credentials.
C8_LocalWithoutKeyFile ==
    /\ [][(/\ Constructing
           /\ LocalCI(BaseSettings.ENVIRONMENT)
           /\ keyFile.kind = "absent")
            => (/\ phase' = "ready"
                /\ settings'.GOOGLE_CLOUD_PROJECT =
                     (IF environ.GOOGLE_CLOUD_PROJECT = Unset
                      THEN Default_GOOGLE_CLOUD_PROJECT
                      ELSE environ.GOOGLE_CLOUD_PROJECT)
                /\ settings'.PROJECT_ID =
                     (IF environ.PROJECT_ID = Unset
                      THEN Default_PROJECT_ID
                      ELSE environ.PROJECT_ID))]_vars
    /\ [][\A t \in Threads :
            (/\ Resolving(t)
             /\ LocalCI(settings.ENVIRONMENT)
             /\ keyFile.kind = "absent")
              => (/\ raisedBy'[t] = <<[step |-> "credentials",
                                      exc |-> "FileNotFoundError"]>>
                  /\ credentials'[t] = None
                  /\ pc'[t] \in {"raised", "returned"}
                  /\ (op[t] = "instance" => exc'[t] = "FileNotFoundError"))]_vars

\* C8 witness: the settings were built without key.json (only the existence
\* check was made), it is still absent, and get_bigquery_client_instance
\* has raised FileNotFoundError.
C8_Witness ==
    /\ phase = "ready"
    /\ initFsOps = <<"exists">>
    /\ keyFile.kind = "absent"
    /\ settings.PROJECT_ID = "proj-a"
    /\ \E t \in Threads : pc[t] = "raised" /\ exc[t] = "FileNotFoundError"

\* C9 as stated: get_google_credentials is invoked at most once in a
\* process, also when the first attempt fails.
C9_ResolverInvokedAtMostOnce == credCalls <= 1

\* C9 amended: in a sequential run get_google_credentials is invoked once
\* per construction attempt, so at most once more than the attempts that
\* failed, and never again once a client is stored.
C9_ResolverOncePerAttempt ==
    /\ [](credCalls <= failedAttempts + 1)
    /\ [][bigquery_client # NoClient => credCalls' = credCalls]_vars

\* C9 witness: a failed attempt, then a second resolver invocation and a
\* stored client.
C9_Witness ==
    /\ credCalls = 2
    /\ failedAttempts = 1
    /\ bigquery_client # NoClient

\* C10: in a sequential run, a failure of credential resolution or client
\* construction in get_bigquery_client_instance reaches the caller as the
\* exception that was raised and leaves the slot None; in
\* ensure_dataset_exists it is absorbed and leaves the slot None; and a call
\* that starts with the slot None attempts construction (again).
C10_FailureNotCached ==
    /\ [](\A t \in Threads :
            (RaisedSteps(t) \cap {"credentials", "client"}) # {} =>
                /\ bigquery_client = NoClient
                /\ op[t] = "instance" =>
                     /\ pc[t] = "raised"
                     /\ exc[t] = raisedBy[t][Len(raisedBy[t])].exc
                /\ op[t] = "ensure" =>
                     /\ pc[t] = "returned"
                     /\ exc[t] = None)
    /\ [][\A t \in Threads :
            (pc[t] = "idle" /\ pc'[t] # "idle" /\ bigquery_client = NoClient)
               => pc'[t] = "credentials"]_vars

\* C10 witness: after a failed attempt the slot is None and a later call
\* is about to resolve credentials again.
C10_Witness ==
    /\ failedAttempts >= 1
    /\ bigquery_client = NoClient
    /\ \E t \in Threads : pc[t] = "credentials" /\ raisedBy[t] = <<>>
====
